---- MODULE Spec2Model ----
(***************************************************************************)
(* Model of the pzem004t driver (src/src/lib.rs, src/src/io.rs): the       *)
(* device handle, the six public operations, the exchange engine          *)
(* `communicate` at the granularity of one transport call per step, the    *)
(* blocking adapters of io.rs and the frame codec (CRC16/MODBUS).          *)
(***************************************************************************)
EXTENDS Integers, Naturals, Sequences, FiniteSets, TLC

\* ------------------------------------------------------------------------
\* Program constants (src/src/lib.rs:53-66)
\* ------------------------------------------------------------------------
ADDR_DEFAULT == 248
ADDR_MIN == 1
ADDR_MAX == 247
CMD_READ == 4
CMD_RESET == 66
CMD_READ_PARAM == 3
CMD_WRITE_PARAM == 6
PARAM_THRESHOLD == 1
PARAM_ADDR == 2
REG_COUNT == 10

\* ------------------------------------------------------------------------
\* Bounds of the model
\* ------------------------------------------------------------------------
\* number of public operations called on one handle
MaxCalls == 2

Byte == 0..255

\* ------------------------------------------------------------------------
\* Integer helpers: u8/u16 arithmetic of the source
\* ------------------------------------------------------------------------
Pow2(n) == 2 ^ n

\* (x >> k) as u8
ShrU8(x, k) == (x \div Pow2(k)) % 256

Xor4 ==
  [a \in 0..15 |-> [b \in 0..15 |->
      ((a + b) % 2)
    + 2 * (((a \div 2) + (b \div 2)) % 2)
    + 4 * (((a \div 4) + (b \div 4)) % 2)
    + 8 * (((a \div 8) + (b \div 8)) % 2)]]

Xor16(a, b) ==
    Xor4[a % 16][b % 16]
  + 16 * Xor4[(a \div 16) % 16][(b \div 16) % 16]
  + 256 * Xor4[(a \div 256) % 16][(b \div 256) % 16]
  + 4096 * Xor4[(a \div 4096) % 16][(b \div 4096) % 16]

\* u16::swap_bytes
SwapBytes(x) == (x % 256) * 256 + (x \div 256)

\* ------------------------------------------------------------------------
\* CRC16/MODBUS (crc16::State::<MODBUS>::calculate): reflected polynomial
\* 0xA001, seed 0xFFFF, no final xor, table driven one byte at a time.
\* ------------------------------------------------------------------------
RECURSIVE CrcBits(_, _)
CrcBits(c, k) ==
  IF k = 0 THEN c
  ELSE CrcBits(IF c % 2 = 1 THEN Xor16(c \div 2, 40961) ELSE c \div 2, k - 1)

CrcTable == [n \in Byte |-> CrcBits(n, 8)]

RECURSIVE CrcFold(_, _, _)
CrcFold(c, buf, k) ==
  IF k > Len(buf) THEN c
  ELSE CrcFold(Xor16(c \div 256, CrcTable[Xor16(c, buf[k]) % 256]), buf, k + 1)

Crc16Modbus(buf) == CrcFold(65535, buf, 1)

\* ------------------------------------------------------------------------
\* State
\* ------------------------------------------------------------------------
VARIABLES
  bigEndian,    \* the build target's byte order (u16::to_be / u16::from_be)
  constructed,  \* "no" | "yes" | "failed": outcome of Pzem::new
  addr,         \* Pzem.addr
  m,            \* the caller's Measurement
  calls,        \* number of public operations called so far
  op,           \* the operation being (or last) executed
  arg,          \* its address / threshold argument (Option<u8> for new)
  timeoutSome,  \* timeout.is_some()
  pc,           \* position inside the call
  req,          \* the request frame (buf of the operation)
  resplen,      \* resp.len()
  resp,         \* the initialised prefix of resp (the rest is MaybeUninit)
  respFrom,     \* for each stored byte, the exchange the peer sent it for
  i,            \* loop index of write_blocking / read_blocking
  nread,        \* value returned by read_blocking
  result,       \* value returned to the caller: "Ok" or the Error variant
  errval,       \* the transport error carried by WriteError / ReadError
  retval,       \* the u16 returned by get_threshold / get_addr
  tx,           \* bytes the transport accepted during the current call
  drained,      \* drain() returned Ok in the current call
  flushed,      \* flush() returned Ok in the current call
  ioTouched,    \* some transport method was called in the current call
  timerStarts,  \* number of timer.start() calls in the current call
  expired,      \* timer.wait() reported expiry in the current call
  line,         \* bytes sent by the peer and not yet consumed by uart.read()
  replied,      \* the peer has answered the current request
  addr0,        \* addr when the current call began
  m0,           \* m when the current call began
  lastSet,      \* address of construction or of the last successful set_addr
  late          \* bytes the peer has sent that have not reached the UART yet

vars == <<bigEndian, late, constructed, addr, m, calls, op, arg, timeoutSome, pc,
          req, resplen, resp, respFrom, i, nread, result, errval, retval, tx,
          drained, flushed, ioTouched, timerStarts, expired, line, replied,
          addr0, m0, lastSet>>

\* ------------------------------------------------------------------------
\* Frame codec (src/src/lib.rs:93-128)
\* ------------------------------------------------------------------------
\* u16::to_be and u16::from_be: identity on a big-endian target, byte swap
\* on a little-endian one
to_be(x) == IF bigEndian THEN x ELSE SwapBytes(x)
from_be(x) == IF bigEndian THEN x ELSE SwapBytes(x)

\* the CRC stored without u16::to_be
crc_write_no_to_be(buf) ==
  LET n == Len(buf)
      crc == Crc16Modbus(SubSeq(buf, 1, n - 2))
  IN [buf EXCEPT ![n - 1] = ShrU8(crc, 8), ![n] = ShrU8(crc, 0)]

crc_write(buf) ==
  LET n == Len(buf)
      crc == to_be(Crc16Modbus(SubSeq(buf, 1, n - 2)))
  IN [buf EXCEPT ![n - 1] = ShrU8(crc, 8), ![n] = ShrU8(crc, 0)]

\* a check that compares only the first CRC byte
crc_check_first_byte_only(buf) ==
  LET n == Len(buf)
      crc == from_be(Crc16Modbus(SubSeq(buf, 1, n - 2)))
  IN ShrU8(crc, 8) = buf[n - 1]

crc_check(buf) ==
  LET n == Len(buf)
      crc == from_be(Crc16Modbus(SubSeq(buf, 1, n - 2)))
  IN ShrU8(crc, 8) = buf[n - 1] /\ ShrU8(crc, 0) = buf[n]

\* a u32 kept as its two 16 bit halves (the value is hi * 65536 + lo)
U32(hi, lo) == [hi |-> hi, lo |-> lo]

\* `x as f32` for a u32: round to nearest, ties to even, on a 24 bit
\* significand; the f32 is man * 2^exp. Ulp gives the exponent: the number
\* of low bits that do not fit
RECURSIVE Ulp(_, _)
Ulp(h, e) == IF h < 256 * Pow2(e) THEN e ELSE Ulp(h, e + 1)

AsF32(x) ==
  LET e == Ulp(x.hi, 0)
      u == Pow2(e)
      q == x.hi * Pow2(16 - e) + (x.lo \div u)
      r == x.lo % u
      up == 2 * r > u \/ (2 * r = u /\ q % 2 = 1)
  IN IF up /\ q + 1 = 16777216 THEN [man |-> 8388608, exp |-> e + 1]
     ELSE IF up THEN [man |-> q + 1, exp |-> e]
     ELSE [man |-> q, exp |-> e]

\* the f32 quotient num / den, kept as the pair of its f32 operands
F32Zero == [num |-> [man |-> 0, exp |-> 0], den |-> 1]
F32Div(x, d) ==
  IF x.hi = 0 /\ x.lo = 0 THEN F32Zero ELSE [num |-> AsF32(x), den |-> d]

\* ((hi as u16) << 8) | lo as u16
U16(hi, lo) == hi * 256 + lo

\* the four bytes taken as one big-endian u32
U32Mixed_plain_be(b0, b1, b2, b3) == U32(b0 * 256 + b1, b2 * 256 + b3)

\* (b0 << 8) | (b1 << 0) | (b2 << 24) | (b3 << 16) on u32
U32Mixed(b0, b1, b2, b3) == U32(b2 * 256 + b3, b0 * 256 + b1)

\* buf is the 25 byte response, 1-based here: buf[k + 1] is the source's buf[k]
result_convert(buf) ==
  [ voltage   |-> F32Div(U32(0, U16(buf[4], buf[5])), 10),
    current   |-> F32Div(U32Mixed(buf[6], buf[7], buf[8], buf[9]), 1000),
    power     |-> F32Div(U32Mixed(buf[10], buf[11], buf[12], buf[13]), 10),
    energy    |-> F32Div(U32Mixed(buf[14], buf[15], buf[16], buf[17]), 1000),
    frequency |-> F32Div(U32(0, U16(buf[18], buf[19])), 10),
    pf        |-> F32Div(U32(0, U16(buf[20], buf[21])), 100),
    alarm     |-> U16(buf[22], buf[23]) # 0 ]

\* Measurement::default()
MeasurementDefault ==
  [ voltage |-> F32Zero, current |-> F32Zero, power |-> F32Zero,
    energy |-> F32Zero, frequency |-> F32Zero, pf |-> F32Zero,
    alarm |-> FALSE ]

\* ------------------------------------------------------------------------
\* Inputs of the callers and of the transport
\* ------------------------------------------------------------------------
Some(a) == [some |-> TRUE, v |-> a]
None == [some |-> FALSE, v |-> 0]

\* addresses the callers of the full model pass to new and set_addr: the
\* edges of the legal range, the universal address and values outside
AddrInputs == {0, 1, 247, 248, 249, 255}
ThresholdInputs == {4660}
ReadErrors == {"Overrun", "Framing"}
WriteErrors == {"TxFault", "TxBreak"}

\* ------------------------------------------------------------------------
\* Pzem::new (src/src/lib.rs:158-165)
\* ------------------------------------------------------------------------
unwrap_or(o, d) == IF o.some THEN o.v ELSE d

\* the upper edge of the range taken as exclusive
new_result_max_excluded(o) ==
  LET a == unwrap_or(o, ADDR_DEFAULT)
  IN IF a # ADDR_DEFAULT /\ (a < ADDR_MIN \/ a >= ADDR_MAX)
     THEN "IllegalAddress" ELSE "Ok"

new_result(o) ==
  LET a == unwrap_or(o, ADDR_DEFAULT)
  IN IF a # ADDR_DEFAULT /\ (a < ADDR_MIN \/ a > ADDR_MAX)
     THEN "IllegalAddress" ELSE "Ok"

NewWith(o) ==
  /\ constructed = "no"
  /\ op' = "new"
  /\ arg' = o
  /\ result' = new_result(o)
  /\ IF new_result(o) = "Ok"
     THEN /\ constructed' = "yes"
          /\ addr' = unwrap_or(o, ADDR_DEFAULT)
          /\ lastSet' = unwrap_or(o, ADDR_DEFAULT)
     ELSE /\ constructed' = "failed"
          /\ UNCHANGED <<addr, lastSet>>
  /\ UNCHANGED <<bigEndian, late, m, calls, timeoutSome, pc, req, resplen, resp,
                 respFrom, i, nread, errval, retval, tx, drained, flushed,
                 ioTouched, timerStarts, expired, line, replied, addr0, m0>>

New == \E o \in {Some(a) : a \in AddrInputs} \cup {None} : NewWith(o)

\* ------------------------------------------------------------------------
\* Request frames of the six operations (src/src/lib.rs:221-232, 250-261,
\* 276-287, 307-318, 344-355, 370-371)
\* ------------------------------------------------------------------------
\* the register count with its two bytes exchanged
read_buf_count_swapped(a) ==
  crc_write(<<a, CMD_READ, 0, 0, ShrU8(REG_COUNT, 0), ShrU8(REG_COUNT, 8), 0, 0>>)

read_buf(a) ==
  crc_write(<<a, CMD_READ, 0, 0, ShrU8(REG_COUNT, 8), ShrU8(REG_COUNT, 0), 0, 0>>)

get_threshold_buf(a) ==
  crc_write(<<a, CMD_READ_PARAM, ShrU8(PARAM_THRESHOLD, 8),
              ShrU8(PARAM_THRESHOLD, 0), 0, 1, 0, 0>>)

get_addr_buf(a) ==
  crc_write(<<a, CMD_READ_PARAM, ShrU8(PARAM_ADDR, 8), ShrU8(PARAM_ADDR, 0),
              0, 1, 0, 0>>)

set_threshold_buf(a, threshold) ==
  crc_write(<<a, CMD_WRITE_PARAM, ShrU8(PARAM_THRESHOLD, 8),
              ShrU8(PARAM_THRESHOLD, 0), ShrU8(threshold, 8),
              ShrU8(threshold, 0), 0, 0>>)

set_addr_buf(a, new) ==
  crc_write(<<a, CMD_WRITE_PARAM, ShrU8(PARAM_ADDR, 8), ShrU8(PARAM_ADDR, 0),
              0, new, 0, 0>>)

reset_energy_buf(a) == crc_write(<<a, CMD_RESET, 0, 0>>)

\* the range check of set_addr without its lower bound
set_addr_illegal_min_excluded(a) == a > ADDR_MAX

\* the range check of new used for set_addr
set_addr_illegal_as_new(a) ==
  a # ADDR_DEFAULT /\ (a < ADDR_MIN \/ a > ADDR_MAX)

\* the range check of set_addr (src/src/lib.rs:340-342)
set_addr_illegal(a) == a < ADDR_MIN \/ a > ADDR_MAX

\* ------------------------------------------------------------------------
\* Entry of a public operation: the caller's view is reset, the request is
\* built and the exchange starts with drain
\* ------------------------------------------------------------------------
\* the caller invokes an operation on a constructed handle, between calls;
\* after the first operation it does so once the line is quiet (bytes may be
\* pending before the first one, see InitLines)
CanCall ==
  /\ constructed = "yes"
  /\ pc = "idle"
  /\ calls < MaxCalls
  /\ (calls = 0 \/ line = <<>>)

Enter(o, a, t) ==
  /\ op' = o
  /\ arg' = a
  /\ timeoutSome' = t
  /\ calls' = calls + 1
  /\ addr0' = addr
  /\ m0' = m
  /\ resp' = <<>>
  /\ respFrom' = <<>>
  /\ i' = 0
  /\ nread' = 0
  /\ errval' = "none"
  /\ retval' = 0
  /\ tx' = <<>>
  /\ drained' = FALSE
  /\ flushed' = FALSE
  /\ ioTouched' = FALSE
  /\ timerStarts' = 0
  /\ expired' = FALSE
  /\ replied' = FALSE
  /\ UNCHANGED <<bigEndian, late, constructed, m, line, lastSet>>

\* the read started right after the last byte was written, without flush
communicate_next_no_flush(p) ==
  CASE p = "call" -> "drain"
    [] p = "drain" -> "write"
    [] p = "write" -> "rx_start"
    [] p = "flush" -> "rx_start"

\* the order of the transport steps in communicate (src/src/lib.rs:174-181):
\* the step that follows step p when p succeeded
communicate_next(p) ==
  CASE p = "call" -> "drain"
    [] p = "drain" -> "write"
    [] p = "write" -> "flush"
    [] p = "flush" -> "rx_start"

Exchange(buf, n) ==
  /\ req' = buf
  /\ resplen' = n
  /\ result' = "pending"
  /\ pc' = communicate_next("call")
  /\ UNCHANGED addr

read ==
  \E t \in BOOLEAN :
    CanCall /\ Enter("read", 0, t) /\ Exchange(read_buf(addr), 25)

get_threshold ==
  \E t \in BOOLEAN :
    CanCall /\ Enter("get_threshold", 0, t) /\ Exchange(get_threshold_buf(addr), 7)

get_addr ==
  \E t \in BOOLEAN :
    CanCall /\ Enter("get_addr", 0, t) /\ Exchange(get_addr_buf(addr), 7)

set_threshold ==
  \E t \in BOOLEAN, threshold \in ThresholdInputs :
    /\ CanCall
    /\ Enter("set_threshold", threshold, t)
    /\ Exchange(set_threshold_buf(addr, threshold), 8)

\* self.addr assigned before the range check
set_addr_with_assign_first(new, t) ==
  /\ CanCall
  /\ Enter("set_addr", new, t)
  /\ IF set_addr_illegal(new)
     THEN /\ result' = "IllegalAddress"
          /\ pc' = "idle"
          /\ req' = <<>>
          /\ resplen' = 0
          /\ addr' = new
     ELSE Exchange(set_addr_buf(addr, new), 8)

set_addr_with(new, t) ==
  /\ CanCall
  /\ Enter("set_addr", new, t)
  /\ IF set_addr_illegal(new)
     THEN /\ result' = "IllegalAddress"
          /\ pc' = "idle"
          /\ req' = <<>>
          /\ resplen' = 0
          /\ UNCHANGED addr
     ELSE Exchange(set_addr_buf(addr, new), 8)

set_addr == \E t \in BOOLEAN, new \in AddrInputs : set_addr_with(new, t)

reset_energy ==
  \E t \in BOOLEAN :
    CanCall /\ Enter("reset_energy", 0, t) /\ Exchange(reset_energy_buf(addr), 4)

\* ------------------------------------------------------------------------
\* Pzem::communicate (src/src/lib.rs:167-207) over the adapters of
\* src/src/io.rs, one transport or timer call per step
\* ------------------------------------------------------------------------
handleVars == <<bigEndian, late, constructed, addr, m, lastSet>>
callVars == <<calls, op, arg, timeoutSome, req, resplen, addr0, m0>>

\* an error that starts the exchange over instead of returning
Fail_retry(r, e) ==
  /\ result' = r
  /\ errval' = e
  /\ pc' = "drain"

\* a transport error reported as a timeout
Fail_as_timeout(r, e) ==
  /\ result' = "TimedOut"
  /\ errval' = e
  /\ pc' = "idle"

\* an early return of communicate through `?`
Fail(r, e) ==
  /\ result' = r
  /\ errval' = e
  /\ pc' = "idle"

\* Drain::drain (src/src/io.rs:74-82): one uart.read() per step
drain ==
  /\ pc = "drain"
  /\ ioTouched' = TRUE
  /\ \/ \* Err(WouldBlock): nothing pending (or not yet arrived)
        /\ drained' = TRUE
        /\ pc' = communicate_next("drain")
        /\ UNCHANGED <<line, result, errval>>
     \/ \* Err(Other(e))
        /\ \E e \in ReadErrors : Fail("ReadError", e)
        /\ UNCHANGED <<line, drained>>
     \/ \* Ok(_): the byte is discarded
        /\ line # <<>>
        /\ line' = Tail(line)
        /\ UNCHANGED <<pc, drained, result, errval>>
  /\ UNCHANGED handleVars
  /\ UNCHANGED callVars
  /\ UNCHANGED <<resp, respFrom, i, nread, retval, tx, flushed, timerStarts,
                 expired, replied>>

\* WriteBlocking::write_blocking (src/src/io.rs:11-17): one uart.write()
\* per step
write_blocking ==
  /\ pc = "write"
  /\ ioTouched' = TRUE
  /\ \/ \* Err(WouldBlock): block! retries the same byte
        UNCHANGED <<tx, i, pc, result, errval>>
     \/ \* Err(Other(e))
        /\ \E e \in WriteErrors : Fail("WriteError", e)
        /\ UNCHANGED <<tx, i>>
     \/ \* Ok(())
        /\ tx' = Append(tx, req[i + 1])
        /\ i' = i + 1
        /\ pc' = IF i + 1 < Len(req) THEN "write" ELSE communicate_next("write")
        /\ UNCHANGED <<result, errval>>
  /\ UNCHANGED handleVars
  /\ UNCHANGED callVars
  /\ UNCHANGED <<resp, respFrom, nread, retval, drained, flushed, timerStarts,
                 expired, line, replied>>

\* block!(self.uart.flush()) (src/src/lib.rs:177)
flush ==
  /\ pc = "flush"
  /\ ioTouched' = TRUE
  /\ \/ \* Err(WouldBlock)
        UNCHANGED <<flushed, pc, result, errval>>
     \/ \* Err(Other(e))
        /\ \E e \in WriteErrors : Fail("WriteError", e)
        /\ UNCHANGED flushed
     \/ \* Ok(())
        /\ flushed' = TRUE
        /\ pc' = communicate_next("flush")
        /\ UNCHANGED <<result, errval>>
  /\ UNCHANGED handleVars
  /\ UNCHANGED callVars
  /\ UNCHANGED <<resp, respFrom, i, nread, retval, tx, drained, timerStarts,
                 expired, line, replied>>

\* the entry of read_blocking (src/src/io.rs:36-39): i = 0 and, with a
\* timeout, timer.start(timeout)
read_blocking_start ==
  /\ pc = "rx_start"
  /\ i' = 0
  /\ timerStarts' = IF timeoutSome THEN timerStarts + 1 ELSE timerStarts
  /\ pc' = IF timeoutSome THEN "rx_wait" ELSE "rx_block"
  /\ UNCHANGED handleVars
  /\ UNCHANGED callVars
  /\ UNCHANGED <<resp, respFrom, nread, result, errval, retval, tx, drained,
                 flushed, ioTouched, expired, line, replied>>

\* the next byte read right after one was stored, without a poll
Store_no_poll(b) ==
  /\ resp' = Append(resp, b.b)
  /\ respFrom' = Append(respFrom, b.x)
  /\ i' = i + 1
  /\ IF i + 1 < resplen
     THEN /\ pc' = IF timeoutSome THEN "rx_read" ELSE "rx_block"
          /\ UNCHANGED nread
     ELSE /\ pc' = "validate"
          /\ nread' = i + 1

\* buf[i] = b; i += 1, and the loop test `i < buf.len()`
Store(b) ==
  /\ resp' = Append(resp, b.b)
  /\ respFrom' = Append(respFrom, b.x)
  /\ i' = i + 1
  /\ IF i + 1 < resplen
     THEN /\ pc' = IF timeoutSome THEN "rx_wait" ELSE "rx_block"
          /\ UNCHANGED nread
     ELSE /\ pc' = "validate"
          /\ nread' = i + 1

\* the poll with `continue` in place of `break` on expiry
read_blocking_wait_no_break ==
  /\ pc = "rx_wait"
  /\ \/ /\ expired' = TRUE
        /\ pc' = "rx_read"
        /\ UNCHANGED nread
     \/ /\ pc' = "rx_read"
        /\ UNCHANGED <<expired, nread>>
  /\ UNCHANGED handleVars
  /\ UNCHANGED callVars
  /\ UNCHANGED <<resp, respFrom, i, result, errval, retval, tx, drained,
                 flushed, ioTouched, timerStarts, line, replied>>

\* ReadBlocking::read_blocking with a timeout: the poll timer.wait()
\* (src/src/io.rs:41-42, 53)
read_blocking_wait ==
  /\ pc = "rx_wait"
  /\ \/ \* Ok(()): the countdown has expired, break
        /\ expired' = TRUE
        /\ nread' = i
        /\ pc' = "validate"
     \/ \* Err(WouldBlock): go on to read a byte
        /\ pc' = "rx_read"
        /\ UNCHANGED <<expired, nread>>
  /\ UNCHANGED handleVars
  /\ UNCHANGED callVars
  /\ UNCHANGED <<resp, respFrom, i, result, errval, retval, tx, drained,
                 flushed, ioTouched, timerStarts, line, replied>>

\* ReadBlocking::read_blocking with a timeout: the self.read() that follows
\* a poll (src/src/io.rs:43-50)
read_blocking_read ==
  /\ pc = "rx_read"
  /\ ioTouched' = TRUE
  /\ \/ \* Err(Other(e))
        /\ \E e \in ReadErrors : Fail("ReadError", e)
        /\ UNCHANGED <<resp, respFrom, i, nread, line>>
     \/ \* Err(WouldBlock): continue
        /\ pc' = "rx_wait"
        /\ UNCHANGED <<resp, respFrom, i, nread, line, result, errval>>
     \/ \* Ok(b)
        /\ line # <<>>
        /\ Store(Head(line))
        /\ line' = Tail(line)
        /\ UNCHANGED <<result, errval>>
  /\ UNCHANGED handleVars
  /\ UNCHANGED callVars
  /\ UNCHANGED <<retval, tx, drained, flushed, timerStarts, expired, replied>>

\* ReadBlocking::read_blocking without a timeout: block!(self.read())
\* (src/src/io.rs:57-60)
read_blocking_forever ==
  /\ pc = "rx_block"
  /\ ioTouched' = TRUE
  /\ \/ \* Err(Other(e))
        /\ \E e \in ReadErrors : Fail("ReadError", e)
        /\ UNCHANGED <<resp, respFrom, i, nread, line>>
     \/ \* Err(WouldBlock): block! retries
        UNCHANGED <<resp, respFrom, i, nread, line, result, errval, pc>>
     \/ \* Ok(b)
        /\ line # <<>>
        /\ Store(Head(line))
        /\ line' = Tail(line)
        /\ UNCHANGED <<result, errval>>
  /\ UNCHANGED handleVars
  /\ UNCHANGED callVars
  /\ UNCHANGED <<retval, tx, drained, flushed, timerStarts, expired, replied>>

\* the checksum checked before the echoed header
communicate_result_crc_first(rq, rs, n, len) ==
  IF n % 256 < len % 256 THEN "TimedOut"
  ELSE IF len = 4 /\ (rs[3] # rq[3] \/ rs[4] # rq[4]) THEN "CrcMismatch"
  ELSE IF ~crc_check(rs) THEN "CrcMismatch"
  ELSE IF rs[1] # rq[1] \/ rs[2] # rq[2] THEN "PzemError"
  ELSE "Ok"

\* only the address byte of the header compared
communicate_result_addr_only(rq, rs, n, len) ==
  IF n % 256 < len % 256 THEN "TimedOut"
  ELSE IF rs[1] # rq[1] THEN "PzemError"
  ELSE IF len = 4 /\ (rs[3] # rq[3] \/ rs[4] # rq[4]) THEN "CrcMismatch"
  ELSE IF ~crc_check(rs) THEN "CrcMismatch"
  ELSE "Ok"

\* the fast path comparing the response's CRC bytes with the request's in
\* the opposite order
communicate_result_fast_path_swapped(rq, rs, n, len) ==
  IF n % 256 < len % 256 THEN "TimedOut"
  ELSE IF rs[1] # rq[1] \/ rs[2] # rq[2] THEN "PzemError"
  ELSE IF len = 4 /\ (rs[3] # rq[4] \/ rs[4] # rq[3]) THEN "CrcMismatch"
  ELSE IF ~crc_check(rs) THEN "CrcMismatch"
  ELSE "Ok"

\* the checks of communicate after read_blocking (src/src/lib.rs:179-206):
\* rq the request, rs the response buffer, n the count read_blocking
\* returned, len = resp.len()
communicate_result(rq, rs, n, len) ==
  IF n % 256 < len % 256 THEN "TimedOut"
  ELSE IF rs[1] # rq[1] \/ rs[2] # rq[2] THEN "PzemError"
  ELSE IF len = 4 /\ (rs[3] # rq[3] \/ rs[4] # rq[4]) THEN "CrcMismatch"
  ELSE IF ~crc_check(rs) THEN "CrcMismatch"
  ELSE "Ok"

\* what each operation does after communicate returned r
\* (src/src/lib.rs:236-240, 264-266, 290-292, 358-362)
\* the measurement decoded from every full buffer, whatever communicate said
read_m_before_check(r, rs, old) ==
  IF r = "TimedOut" THEN old ELSE result_convert(rs)
read_m(r, rs, old) == IF r = "Ok" THEN result_convert(rs) ELSE old
get_retval(r, rs) == IF r = "Ok" THEN U16(rs[4], rs[5]) ELSE 0
\* the new address adopted whatever communicate said
set_addr_addr_always(r, new, old) == new
set_addr_addr(r, new, old) == IF r = "Ok" THEN new ELSE old

\* the return of communicate and of the operation that called it
finish ==
  /\ pc = "validate"
  /\ LET r == communicate_result(req, resp, nread, resplen)
     IN /\ result' = r
        /\ m' = IF op = "read" THEN read_m(r, resp, m) ELSE m
        /\ retval' = IF op \in {"get_threshold", "get_addr"}
                     THEN get_retval(r, resp) ELSE retval
        /\ addr' = IF op = "set_addr" THEN set_addr_addr(r, arg, addr) ELSE addr
        /\ lastSet' = IF op = "set_addr" /\ r = "Ok" THEN arg ELSE lastSet
  /\ pc' = "idle"
  /\ UNCHANGED <<bigEndian, late, constructed>>
  /\ UNCHANGED callVars
  /\ UNCHANGED <<resp, respFrom, i, nread, errval, tx, drained, flushed,
                 ioTouched, timerStarts, expired, line, replied>>

\* ------------------------------------------------------------------------
\* The peer on the serial line: what uart.read() can deliver. The frames
\* follow the response layouts the operations expect (src/src/lib.rs:234,
\* 263, 289, 320, 357, 373)
\* ------------------------------------------------------------------------
\* the two CRC bytes in the order this build's crc_check accepts
WireCrc(prefix) ==
  LET c == Crc16Modbus(prefix)
  IN IF bigEndian THEN <<c \div 256, c % 256>> ELSE <<c % 256, c \div 256>>

\* ... and in the opposite order
SwappedCrc(prefix) == <<WireCrc(prefix)[2], WireCrc(prefix)[1]>>

\* registers 0..9 of the sensor: 231.2 V, 0.1 A, 23.1 W, 1.234 kWh,
\* 50.0 Hz, pf 1.00, no alarm
PayloadA == <<9, 8, 0, 100, 0, 0, 0, 231, 0, 0, 4, 210, 0, 0, 1, 244, 0, 100, 0, 0>>
\* a reading whose energy register (0x01000001) is not exact in f32, alarm set
PayloadB == <<9, 196, 39, 16, 0, 0, 89, 216, 0, 0, 0, 1, 1, 0, 2, 88, 0, 95, 255, 255>>

PeerData(rq) ==
  IF rq[2] = CMD_READ THEN {PayloadA, PayloadB}
  ELSE IF rq[2] = CMD_READ_PARAM THEN {<<0, 230>>, <<18, 52>>}
  ELSE {<<>>}

\* the bytes before the CRC of the reply the request rq asks for
PeerPrefix(rq, d) ==
  IF rq[2] = CMD_READ THEN <<rq[1], rq[2], 20>> \o d
  ELSE IF rq[2] = CMD_READ_PARAM THEN <<rq[1], rq[2], 2>> \o d
  ELSE SubSeq(rq, 1, Len(rq) - 2)

FlipBit(b) == IF b % 2 = 0 THEN b + 1 ELSE b - 1
CorruptAt(f, k) == [f EXCEPT ![k] = FlipBit(f[k])]
WrongFc(f) == [f EXCEPT ![2] = (f[2] + 128) % 256]
WrongAddr(f) == [f EXCEPT ![1] = FlipBit(f[1])]

PeerGood(rq, d) == PeerPrefix(rq, d) \o WireCrc(PeerPrefix(rq, d))

PeerReplies(rq) ==
  LET d0 == CHOOSE d \in PeerData(rq) : TRUE
      p0 == PeerPrefix(rq, d0)
      g0 == PeerGood(rq, d0)
      n == Len(g0)
  IN    {PeerGood(rq, d) : d \in PeerData(rq)}
     \cup {PeerPrefix(rq, d) \o SwappedCrc(PeerPrefix(rq, d)) : d \in PeerData(rq)}
     \cup {CorruptAt(g0, k) : k \in {3, n - 1, n}}
     \cup {WrongFc(p0) \o WireCrc(WrongFc(p0)),
           WrongAddr(p0) \o WireCrc(WrongAddr(p0)),
           WrongFc(g0),
           \* the 5 byte exception reply of the protocol
           <<rq[1], (rq[2] + 128) % 256, 2>> \o WireCrc(<<rq[1], (rq[2] + 128) % 256, 2>>),
           \* a reply cut short
           SubSeq(g0, 1, n - 1)}

Tagged(f, x) == [k \in 1..Len(f) |-> [b |-> f[k], x |-> x]]

\* the peer answers once the whole request has been accepted by the
\* transport; the bytes reach uart.read() in order, at any later time
peer_reply ==
  /\ pc \in {"flush", "rx_start", "rx_wait", "rx_read", "rx_block"}
  /\ tx = req
  /\ ~replied
  /\ replied' = TRUE
  /\ \E f \in PeerReplies(tx) : line' = line \o Tagged(f, calls)
  /\ UNCHANGED handleVars
  /\ UNCHANGED callVars
  /\ UNCHANGED <<resp, respFrom, i, nread, result, errval, retval, tx, drained,
                 flushed, ioTouched, timerStarts, expired, pc>>

\* ------------------------------------------------------------------------
\* Specification
\* ------------------------------------------------------------------------
\* line noise that may be pending before the first operation
InitLines == {<<>>, <<[b |-> 85, x |-> 0]>>}

Init ==
  /\ bigEndian \in BOOLEAN
  /\ constructed = "no"
  /\ addr = 0
  /\ lastSet = 0
  /\ m = MeasurementDefault
  /\ m0 = MeasurementDefault
  /\ addr0 = 0
  /\ calls = 0
  /\ op = "none"
  /\ arg = 0
  /\ timeoutSome = FALSE
  /\ pc = "idle"
  /\ req = <<>>
  /\ resplen = 0
  /\ resp = <<>>
  /\ respFrom = <<>>
  /\ i = 0
  /\ nread = 0
  /\ result = "none"
  /\ errval = "none"
  /\ retval = 0
  /\ tx = <<>>
  /\ drained = FALSE
  /\ flushed = FALSE
  /\ ioTouched = FALSE
  /\ timerStarts = 0
  /\ expired = FALSE
  /\ line \in InitLines
  /\ replied = FALSE
  /\ late = <<>>

Next ==
  \/ New
  \/ read
  \/ get_threshold
  \/ get_addr
  \/ set_threshold
  \/ set_addr
  \/ reset_energy
  \/ drain
  \/ write_blocking
  \/ flush
  \/ read_blocking_start
  \/ read_blocking_wait
  \/ read_blocking_read
  \/ read_blocking_forever
  \/ finish
  \/ peer_reply

Spec == Init /\ [][Next]_vars

\* The address checks over every byte value: construction with any
\* Option<u8>, then set_addr with any u8 on the handles of the full model
NewAny == \E o \in {Some(a) : a \in Byte} \cup {None} : NewWith(o)

set_addr_any ==
  \E t \in BOOLEAN, new \in Byte : addr \in AddrInputs /\ set_addr_with(new, t)

NextAddr == NewAny \/ set_addr_any

SpecAddr == Init /\ [][NextAddr]_vars

\* ------------------------------------------------------------------------
\* Termination of one call made with a timeout. The read side of the
\* transport is unconstrained: besides its reply the device may keep sending,
\* so that uart.read() finds a byte whenever the line had run empty
\* ------------------------------------------------------------------------
peer_babble ==
  /\ pc # "idle"
  /\ line = <<>>
  /\ line' = <<[b |-> 85, x |-> 0]>>
  /\ UNCHANGED handleVars
  /\ UNCHANGED callVars
  /\ UNCHANGED <<resp, respFrom, i, nread, result, errval, retval, tx, drained,
                 flushed, ioTouched, timerStarts, expired, pc, replied>>

\* the first operation on the handle, called with Some((timer, timeout))
call_with_timeout ==
  /\ calls = 0
  /\ read \/ get_threshold \/ get_addr \/ set_threshold \/ set_addr
       \/ reset_energy
  /\ timeoutSome'

NextLive ==
  \/ New
  \/ call_with_timeout
  \/ drain
  \/ write_blocking
  \/ flush
  \/ read_blocking_start
  \/ read_blocking_wait
  \/ read_blocking_read
  \/ finish
  \/ peer_reply
  \/ peer_babble

\* the running call takes its next step; the transport eventually accepts
\* the byte offered to it and completes flush; the countdown eventually
\* expires at a poll. Nothing is assumed of what uart.read() returns
FairLive ==
  /\ WF_vars(drain)
  /\ WF_vars(write_blocking)
  /\ WF_vars(flush)
  /\ WF_vars(read_blocking_start)
  /\ WF_vars(read_blocking_wait)
  /\ WF_vars(read_blocking_read)
  /\ WF_vars(finish)
  /\ SF_vars(write_blocking /\ tx' # tx)
  /\ SF_vars(flush /\ flushed')
  /\ SF_vars(read_blocking_wait /\ expired')

SpecLive == Init /\ [][NextLive]_vars /\ FairLive

\* ------------------------------------------------------------------------
\* A slow peer: its reply is under way but reaches the UART at any later
\* time, possibly after the call it answers has been given up and the next
\* one has begun
\* ------------------------------------------------------------------------
peer_defer ==
  /\ pc \in {"flush", "rx_start", "rx_wait", "rx_read", "rx_block"}
  /\ tx = req
  /\ ~replied
  /\ replied' = TRUE
  /\ \E d \in PeerData(tx) : late' = Tagged(PeerGood(tx, d), calls)
  /\ UNCHANGED <<bigEndian, constructed, addr, m, lastSet>>
  /\ UNCHANGED callVars
  /\ UNCHANGED <<resp, respFrom, i, nread, result, errval, retval, tx, drained,
                 flushed, ioTouched, timerStarts, expired, pc, line>>

peer_arrive ==
  /\ late # <<>>
  /\ line' = line \o late
  /\ late' = <<>>
  /\ UNCHANGED <<bigEndian, constructed, addr, m, lastSet>>
  /\ UNCHANGED callVars
  /\ UNCHANGED <<resp, respFrom, i, nread, result, errval, retval, tx, drained,
                 flushed, ioTouched, timerStarts, expired, pc, replied>>

\* the two register reads, called with Some((timer, timeout))
late_call ==
  /\ get_threshold \/ get_addr
  /\ timeoutSome'

NextLate ==
  \/ New
  \/ late_call
  \/ drain
  \/ write_blocking
  \/ flush
  \/ read_blocking_start
  \/ read_blocking_wait
  \/ read_blocking_read
  \/ finish
  \/ peer_defer
  \/ peer_arrive

SpecLate == Init /\ [][NextLate]_vars

\* ------------------------------------------------------------------------
\* The frame codec on its own: crc_write, crc_check and result_convert
\* applied to frames and buffers drawn from bounded sets
\* ------------------------------------------------------------------------
CodecAddrs == {0, 1, 248, 255}
CodecFcs == {CMD_READ_PARAM, CMD_READ, CMD_WRITE_PARAM, CMD_RESET, 132}
CodecPayloads ==
  {<<>>, <<0, 0, 0, 10>>, <<0, 2, 0, 1>>, <<0, 1, 18, 52>>,
   <<255, 255, 255, 255>>, <<2, 0, 230>>, <<20>> \o PayloadA}

\* frames as the operations hand them to crc_write: two zero bytes at the end
CodecFrames ==
  {<<a, fc>> \o p \o <<0, 0>> : a \in CodecAddrs, fc \in CodecFcs, p \in CodecPayloads}

\* b with bit j inverted
FlipBitAt(b, j) ==
  IF (b \div Pow2(j)) % 2 = 1 THEN b - Pow2(j) ELSE b + Pow2(j)

\* register payloads: two readings, all ones, and for every byte of the 20
\* one payload in which only that byte is set (to 1 and to 255)
UnitPayload(k, v) == [n \in 1..20 |-> IF n = k THEN v ELSE 0]
CodecRegisters ==
  {PayloadA, PayloadB, [n \in 1..20 |-> 255]}
    \cup {UnitPayload(k, v) : k \in 1..20, v \in {1, 255}}

\* 25 byte buffers; the bytes around the registers vary too
CodecBuffers ==
  {h \o d \o t : h \in {<<248, 4, 20>>, <<1, 132, 0>>},
                 d \in CodecRegisters,
                 t \in {<<0, 0>>, <<171, 205>>}}

InitCodec ==
  /\ Init
  /\ line = <<>>

codec_crc_write ==
  /\ constructed = "no"
  /\ op = "none"
  /\ \E f \in CodecFrames :
       /\ req' = crc_write(f)
       /\ resp' = crc_write(f)
       /\ result' = IF crc_check(crc_write(f)) THEN "Ok" ELSE "CrcMismatch"
  /\ op' = "crc_write"
  /\ UNCHANGED <<bigEndian, late, constructed, addr, m, calls, arg, timeoutSome,
                 pc, resplen, respFrom, i, nread, errval, retval, tx, drained,
                 flushed, ioTouched, timerStarts, expired, line, replied,
                 addr0, m0, lastSet>>

\* one bit of the frame inverted before crc_check
codec_flip ==
  /\ op = "crc_write"
  /\ \E k \in 1..Len(req), j \in 0..7 :
       /\ resp' = [req EXCEPT ![k] = FlipBitAt(req[k], j)]
       /\ result' = IF crc_check([req EXCEPT ![k] = FlipBitAt(req[k], j)])
                    THEN "Ok" ELSE "CrcMismatch"
  /\ op' = "crc_flip"
  /\ UNCHANGED <<bigEndian, late, constructed, addr, m, calls, arg, timeoutSome,
                 pc, req, resplen, respFrom, i, nread, errval, retval, tx,
                 drained, flushed, ioTouched, timerStarts, expired, line,
                 replied, addr0, m0, lastSet>>

codec_result_convert ==
  /\ constructed = "no"
  /\ op = "none"
  /\ \E b \in CodecBuffers :
       /\ resp' = b
       /\ m' = result_convert(b)
  /\ op' = "result_convert"
  /\ UNCHANGED <<bigEndian, late, constructed, addr, calls, arg, timeoutSome, pc,
                 req, resplen, respFrom, i, nread, result, errval, retval,
                 tx, drained, flushed, ioTouched, timerStarts, expired, line,
                 replied, addr0, m0, lastSet>>

\* 4 byte responses to the request rq: the echoed header with every pair of
\* trailing bytes, and headers that differ, with the request's trailing bytes
\* and with a checksum of their own
CodecResponses(rq) ==
  {<<rq[1], rq[2], c1, c2>> : c1 \in Byte, c2 \in Byte}
    \cup {<<rq[1], (rq[2] + 128) % 256, rq[3], rq[4]>>,
          <<FlipBit(rq[1]), rq[2], rq[3], rq[4]>>,
          <<rq[1], (rq[2] + 128) % 256>> \o WireCrc(<<rq[1], (rq[2] + 128) % 256>>),
          <<FlipBit(rq[1]), rq[2]>> \o WireCrc(<<FlipBit(rq[1]), rq[2]>>)}

\* the checks of communicate on a 4 byte response received in full to the
\* request of reset_energy
codec_communicate_result ==
  /\ constructed = "no"
  /\ op = "none"
  /\ \E a \in {ADDR_MIN, ADDR_DEFAULT} :
       \E rs \in CodecResponses(reset_energy_buf(a)) :
         /\ req' = reset_energy_buf(a)
         /\ resp' = rs
         /\ result' = communicate_result(reset_energy_buf(a), rs, 4, 4)
  /\ resplen' = 4
  /\ nread' = 4
  /\ op' = "communicate_result"
  /\ UNCHANGED <<bigEndian, late, constructed, addr, m, calls, arg, timeoutSome,
                 pc, respFrom, i, errval, retval, tx, drained, flushed,
                 ioTouched, timerStarts, expired, line, replied, addr0, m0,
                 lastSet>>

NextCodec ==
  \/ codec_crc_write
  \/ codec_flip
  \/ codec_result_convert
  \/ codec_communicate_result

SpecCodec == InitCodec /\ [][NextCodec]_vars

\* ------------------------------------------------------------------------
\* Properties
\* ------------------------------------------------------------------------
ExchangeOps ==
  {"read", "get_threshold", "get_addr", "set_threshold", "set_addr",
   "reset_energy"}

\* response length of each operation (the resp arrays of src/src/lib.rs)
ExpectedLen(o) ==
  CASE o = "read" -> 25
    [] o \in {"get_threshold", "get_addr"} -> 7
    [] o \in {"set_threshold", "set_addr"} -> 8
    [] o = "reset_energy" -> 4

\* the last two bytes of f are the CRC16/MODBUS of the bytes before them
CrcValid(f) ==
  <<f[Len(f) - 1], f[Len(f)]>> = WireCrc(SubSeq(f, 1, Len(f) - 2))

HeaderEchoed(rq, f) == f[1] = rq[1] /\ f[2] = rq[2]

Returned == pc = "idle" /\ op \in ExchangeOps

\* C1: whenever an operation has returned success, the response it accepted
\* has the full expected length, its first two bytes equal the request's
\* first two bytes and its last two bytes are the CRC16/MODBUS of all the
\* bytes before them.
C1_SuccessOnlyOnValidResponse ==
  (Returned /\ result = "Ok") =>
     /\ nread = ExpectedLen(op)
     /\ Len(resp) = ExpectedLen(op)
     /\ HeaderEchoed(req, resp)
     /\ CrcValid(resp)

\* an operation has returned success on a 25 byte measurement response
C1_Witness ==
  Returned /\ result = "Ok" /\ op = "read" /\ Len(resp) = 25 /\ CrcValid(resp)

\* C3: in every exchange the transport sees drain, then the whole request,
\* then flush, then the reads of the response: no request byte is written
\* before drain returned Ok, no response byte is stored (and the countdown is
\* not started) before every request byte was written and flush completed,
\* and when drain, a write or flush failed no later step was performed.
C3_DrainWriteFlushRead ==
  /\ tx = SubSeq(req, 1, Len(tx))
  /\ (tx # <<>> => drained)
  /\ (flushed => tx = req)
  /\ ((resp # <<>> \/ timerStarts > 0 \/ expired) =>
        drained /\ tx = req /\ flushed)
  /\ ((Returned /\ result = "ReadError" /\ ~drained) =>
        tx = <<>> /\ ~flushed /\ resp = <<>> /\ timerStarts = 0)
  /\ ((Returned /\ result = "WriteError") =>
        drained /\ ~flushed /\ resp = <<>> /\ timerStarts = 0)

\* flush failed after the whole request was written: the reply that was
\* already pending has not been read
C3_Witness ==
  /\ Returned
  /\ result = "WriteError"
  /\ drained
  /\ tx = req
  /\ ~flushed
  /\ resp = <<>>
  /\ line # <<>>

\* the verdict on a response buffer of which n bytes were received
Verdict(o, rq, rs, n) ==
  IF n < ExpectedLen(o) THEN "TimedOut"
  ELSE IF ~HeaderEchoed(rq, rs) THEN "PzemError"
  ELSE IF ~CrcValid(rs) THEN "CrcMismatch"
  ELSE "Ok"

\* C4: once read_blocking has returned a count, the outcome is TimedOut for
\* a short read whatever the bytes; otherwise PzemError when either of the
\* first two bytes differs from the request whatever the checksum; otherwise
\* CrcMismatch when the checksum is wrong; otherwise success. Exactly one
\* of the four is produced.
C4_ValidationPrecedence ==
  [][ pc = "validate" =>
        /\ pc' = "idle"
        /\ result' \in {"TimedOut", "PzemError", "CrcMismatch", "Ok"}
        /\ result' = Verdict(op, req, resp, nread) ]_vars

\* a full response with a wrong header and a wrong checksum was answered
\* with PzemError
C4_Witness ==
  /\ Returned
  /\ result = "PzemError"
  /\ nread = ExpectedLen(op)
  /\ ~HeaderEchoed(req, resp)
  /\ ~CrcValid(resp)

\* C5: with a timeout, when the countdown is found expired before the
\* expected number of bytes has been received, read_blocking returns the
\* count received so far, which is less than the expected length, and the
\* operation returns TimedOut.
C5_ExpiryGivesShortCountAndTimedOut ==
  expired =>
    /\ timeoutSome
    /\ pc \in {"validate", "idle"}
    /\ nread = Len(resp)
    /\ nread < ExpectedLen(op)
    /\ (pc = "idle" => result = "TimedOut")

\* the countdown expired in the middle of a frame
C5_Witness ==
  /\ Returned
  /\ expired
  /\ result = "TimedOut"
  /\ nread > 0
  /\ nread < ExpectedLen(op)

\* C6: a response received in full whose first two bytes differ from the
\* request's first two bytes makes the operation return PzemError, also
\* when its checksum is valid.
C6_HeaderMismatchIsPzemError ==
  (Returned /\ Len(resp) = ExpectedLen(op) /\ ~HeaderEchoed(req, resp)) =>
     result = "PzemError"

\* a reply with the function code modified and a valid checksum was
\* answered with PzemError
C6_Witness ==
  /\ Returned
  /\ result = "PzemError"
  /\ Len(resp) = ExpectedLen(op)
  /\ resp[1] = req[1]
  /\ resp[2] # req[2]
  /\ CrcValid(resp)

\* C7: set_addr(new) changes the stored address to new only when its exchange
\* succeeded; on every failure the stored address is what it was before the
\* call; the stored address is always the one of construction or of the last
\* successful set_addr, and every request frame carries it as its first byte.
C7_AddressAdoptedOnlyOnSuccess ==
  /\ (op = "set_addr" =>
        IF Returned /\ result = "Ok" THEN addr = arg ELSE addr = addr0)
  /\ addr = lastSet
  /\ (pc # "idle" => req[1] = lastSet)
  /\ ((pc # "idle" /\ tx # <<>>) => tx[1] = lastSet)

\* set_addr failed on a corrupted reply and the address is the old one
C7_Witness ==
  /\ Returned
  /\ op = "set_addr"
  /\ result = "CrcMismatch"
  /\ arg # addr0
  /\ addr = addr0

\* C8: read(m) leaves every field of m unchanged while it runs and when it
\* returns an error, and on success m holds the seven fields decoded from
\* the validated response.
C8_MeasurementAllOrNothing ==
  op = "read" =>
    IF Returned /\ result = "Ok" THEN m = result_convert(resp) ELSE m = m0

\* a read failed after an earlier read had filled m: m is still the earlier
\* measurement
C8_Witness ==
  /\ Returned
  /\ op = "read"
  /\ result = "CrcMismatch"
  /\ m0 # MeasurementDefault
  /\ m = m0

\* C2: Pzem::new with Some(a) succeeds and stores a iff a is in 0x01..=0xF7
\* or a = 0xF8, and fails with IllegalAddress for every other byte; with None
\* it succeeds and stores 0xF8. Construction performs no transport I/O.
C2_NewAcceptsExactlyLegalAddresses ==
  [][ (constructed = "no" /\ constructed' # "no") =>
        /\ op' = "new"
        /\ IF arg'.some
           THEN IF arg'.v \in 1..247 \/ arg'.v = 248
                THEN constructed' = "yes" /\ result' = "Ok" /\ addr' = arg'.v
                ELSE constructed' = "failed" /\ result' = "IllegalAddress"
           ELSE constructed' = "yes" /\ result' = "Ok" /\ addr' = 248
        /\ line' = line
        /\ tx' = <<>>
        /\ resp' = <<>>
        /\ ~ioTouched'
        /\ timerStarts' = 0 ]_vars

\* construction was refused for the byte just above the universal address
C2_Witness ==
  /\ op = "new"
  /\ constructed = "failed"
  /\ arg.some
  /\ arg.v = 249
  /\ result = "IllegalAddress"
  /\ ~ioTouched

\* C9 as stated: set_addr(a) is rejected with IllegalAddress iff
\* Pzem::new(Some(a)) would be rejected with IllegalAddress.
C9_Original ==
  op = "set_addr" =>
    ((result = "IllegalAddress") <=> (new_result(Some(arg)) = "IllegalAddress"))

\* C9 amended: set_addr(a) is rejected with IllegalAddress iff a is outside
\* 0x01..=0xF7; this is the range check of construction except at a = 0xF8,
\* which new accepts and set_addr rejects.
C9_SetAddrRejectsOutsideRange ==
  op = "set_addr" =>
    /\ (result = "IllegalAddress") <=> (arg \notin 1..247)
    /\ (result = "IllegalAddress") <=>
         (new_result(Some(arg)) = "IllegalAddress" \/ arg = 248)

\* set_addr refused the universal address, which new accepts
C9_Witness ==
  /\ op = "set_addr"
  /\ arg = 248
  /\ result = "IllegalAddress"
  /\ new_result(Some(arg)) = "Ok"

\* C10: when set_addr returns IllegalAddress no transport method was called
\* during that call (no read, not even by drain, no write, no timer start),
\* the pending input is untouched and the handle is unchanged.
C10_IllegalAddressBeforeAnyIO ==
  [][ (op' = "set_addr" /\ result' = "IllegalAddress") =>
        /\ pc' = "idle"
        /\ ~ioTouched'
        /\ tx' = <<>>
        /\ resp' = <<>>
        /\ timerStarts' = 0
        /\ addr' = addr0'
        /\ (calls' = calls + 1 =>
              /\ line' = line
              /\ addr' = addr
              /\ constructed' = constructed
              /\ lastSet' = lastSet) ]_vars

\* set_addr(0) has returned IllegalAddress
C10_Witness ==
  /\ op = "set_addr"
  /\ pc = "idle"
  /\ result = "IllegalAddress"
  /\ arg = 0
  /\ addr = addr0

\* C11: every frame produced by crc_write is accepted by crc_check, and the
\* same frame with any single bit inverted, in the prefix or in the two CRC
\* bytes, is rejected by crc_check.
C11_CrcRoundTrip ==
  /\ (op = "crc_write" => (resp = req /\ result = "Ok"))
  /\ (op = "crc_flip" => (resp # req /\ result = "CrcMismatch"))

\* a bit of the last CRC byte of an 8 byte frame was inverted and the frame
\* was rejected
C11_Witness ==
  /\ op = "crc_flip"
  /\ Len(req) = 8
  /\ resp[8] # req[8]
  /\ SubSeq(resp, 1, 7) = SubSeq(req, 1, 7)
  /\ result = "CrcMismatch"

\* the integers of a 25 byte response b (b[k] is the source's buf[k])
RawU16(b, o) == b[o + 1] * 256 + b[o + 2]
\* (b[o+2]*256 + b[o+3]) * 65536 + (b[o]*256 + b[o+1]), as its 16 bit halves
RawU32(b, o) ==
  [hi |-> b[o + 3] * 256 + b[o + 4], lo |-> b[o + 1] * 256 + b[o + 2]]

\* C19: result_convert assembles voltage = b[3]*256 + b[4]; current, power,
\* energy at o = 5, 9, 13 as (b[o+2]*256 + b[o+3]) * 65536 + (b[o]*256 +
\* b[o+1]); frequency = b[17]*256 + b[18]; power factor = b[19]*256 + b[20];
\* alarm iff b[21]*256 + b[22] is non-zero; these integers are then scaled
\* by 10, 1000, 10, 1000, 10, 100. The result depends on bytes 3..22 only.
C19_RawIntegersOfResponse ==
  op = "result_convert" =>
    m = [ voltage   |-> F32Div([hi |-> 0, lo |-> RawU16(resp, 3)], 10),
          current   |-> F32Div(RawU32(resp, 5), 1000),
          power     |-> F32Div(RawU32(resp, 9), 10),
          energy    |-> F32Div(RawU32(resp, 13), 1000),
          frequency |-> F32Div([hi |-> 0, lo |-> RawU16(resp, 17)], 10),
          pf        |-> F32Div([hi |-> 0, lo |-> RawU16(resp, 19)], 100),
          alarm     |-> RawU16(resp, 21) # 0 ]

\* the voltage bytes 0x09, 0x08 were decoded to 2312 (231.2 V) from a buffer
\* whose header and CRC bytes are not those of a valid frame
C19_Witness ==
  /\ op = "result_convert"
  /\ resp[4] = 9
  /\ resp[5] = 8
  /\ resp[2] = 132
  /\ m.voltage = [num |-> [man |-> 2312, exp |-> 0], den |-> 10]
  /\ m.energy = [num |-> [man |-> 1234, exp |-> 0], den |-> 1000]

\* the CRC16/MODBUS value of all bytes of f but the last two
CrcOf(f) == Crc16Modbus(SubSeq(f, 1, Len(f) - 2))

\* the last two bytes of f are [CRC high][CRC low], [CRC low][CRC high]
EndsHiLo(f) ==
  f[Len(f) - 1] = CrcOf(f) \div 256 /\ f[Len(f)] = CrcOf(f) % 256
EndsLoHi(f) ==
  f[Len(f) - 1] = CrcOf(f) % 256 /\ f[Len(f)] = CrcOf(f) \div 256

\* C12 as stated: every request frame ends with [CRC high][CRC low] of the
\* CRC16/MODBUS of its preceding bytes, and a response is accepted only when
\* its last two bytes are in that same order.
C12_Original ==
  /\ (op \in ExchangeOps /\ req # <<>>) => EndsHiLo(req)
  /\ (Returned /\ result = "Ok") => EndsHiLo(resp)

\* C12: the order of the two CRC bytes is that of the target: built for a
\* little-endian target every request frame ends with [CRC low][CRC high]
\* (u16::to_be swaps the value before its bytes are stored) and a response is
\* accepted only with its last two bytes in that order; built for a
\* big-endian target both are [CRC high][CRC low].
C12_CrcBytesInTargetOrder ==
  /\ (op \in ExchangeOps /\ req # <<>>) =>
        IF bigEndian THEN EndsHiLo(req) ELSE EndsLoHi(req)
  /\ (Returned /\ result = "Ok") =>
        IF bigEndian THEN EndsHiLo(resp) ELSE EndsLoHi(resp)

\* on a little-endian target a response was accepted, and neither the
\* request's nor the response's CRC reads the same in both orders
C12_Witness ==
  /\ ~bigEndian
  /\ Returned /\ result = "Ok"
  /\ EndsLoHi(req) /\ ~EndsHiLo(req)
  /\ EndsLoHi(resp) /\ ~EndsHiLo(resp)

\* the measurement request of address a, byte by byte
ReadFrame(a) == <<a, 4, 0, 0, 0, 10>> \o WireCrc(<<a, 4, 0, 0, 0, 10>>)

\* C13: read() on a handle with stored address a transmits exactly the
\* 8 bytes [a, 0x04, 0x00, 0x00, 0x00, 0x0A, c1, c2], c1 c2 being the
\* CRC16/MODBUS bytes over the first six (for a = 0xF8 both are 0x64), and
\* then reads a response of exactly 25 bytes: what has been written is always
\* a prefix of that frame and the whole of it once flush completed, never
\* more than 25 bytes are stored and success is returned only with 25.
C13_ReadRequestAndResponseLength ==
  op = "read" =>
     /\ tx = SubSeq(ReadFrame(addr0), 1, Len(tx))
     /\ (flushed => tx = ReadFrame(addr0))
     /\ (resp # <<>> => tx = ReadFrame(addr0))
     /\ (addr0 = 248 => ReadFrame(addr0) = <<248, 4, 0, 0, 0, 10, 100, 100>>)
     /\ resplen = 25
     /\ Len(resp) <= 25
     /\ ((Returned /\ result # "TimedOut" /\ flushed /\ errval = "none") =>
            Len(resp) = 25 /\ nread = 25)

\* read() at the universal address has sent its frame and returned success
\* on 25 bytes
C13_Witness ==
  /\ op = "read"
  /\ Returned /\ result = "Ok"
  /\ tx = <<248, 4, 0, 0, 0, 10, 100, 100>>
  /\ Len(resp) = 25

ErrorResults ==
  {"TimedOut", "PzemError", "CrcMismatch", "ReadError", "WriteError",
   "IllegalAddress"}

\* how far communicate has come
Phase(p) ==
  CASE p = "drain" -> 1
    [] p = "write" -> 2
    [] p = "flush" -> 3
    [] p \in {"rx_start", "rx_wait", "rx_read", "rx_block"} -> 4
    [] p = "validate" -> 5
    [] p = "idle" -> 6

\* C14: each operation performs at most one exchange and never retries.
\* Within one call communicate only moves forward through drain, write,
\* flush, read and validation; the bytes written only grow and never exceed
\* the one request frame; the countdown is started at most once; a call whose
\* result is an error has returned; and once the response is being judged or
\* the call has returned no byte is written, read or stored.
C14_Step ==
  calls' = calls =>
     /\ Phase(pc') >= Phase(pc)
     /\ tx = SubSeq(tx', 1, Len(tx))
     /\ tx' = SubSeq(req', 1, Len(tx'))
     /\ timerStarts' <= 1
     /\ (result' \in ErrorResults => pc' = "idle")
     /\ (pc \in {"validate", "idle"} =>
            /\ tx' = tx
            /\ resp' = resp
            /\ line' = line
            /\ timerStarts' = timerStarts)

C14_AtMostOneExchange == [][C14_Step]_vars

\* a call has returned TimedOut in the middle of a frame: the request went
\* out once and the rest of the reply is left unread on the line
C14_Witness ==
  /\ Returned
  /\ result = "TimedOut"
  /\ tx = req
  /\ timerStarts = 1
  /\ resp # <<>>
  /\ line # <<>>

\* C16: in read_blocking with a timeout the countdown is started exactly
\* once, on entry and before any byte, and polled before every byte attempt:
\* a read of the transport happens only right after a poll that did not
\* report expiry, one read per poll, and once a poll has reported expiry no
\* byte is taken from the transport or stored, whatever is still arriving.
C16_Step ==
  calls' = calls =>
     /\ (timerStarts' # timerStarts =>
           timeoutSome /\ pc = "rx_start" /\ timerStarts = 0 /\ resp = <<>>)
     /\ (pc' \in {"rx_wait", "rx_read"} => timeoutSome /\ timerStarts' = 1)
     /\ (~timeoutSome => timerStarts' = 0 /\ ~expired')
     /\ ((pc' = "rx_read" /\ pc # "rx_read") => pc = "rx_wait" /\ ~expired')
     /\ ((pc' = "rx_read" /\ pc = "rx_read") =>
           resp' = resp /\ line = SubSeq(line', 1, Len(line)))
     /\ ((timeoutSome /\ resp' # resp) => pc = "rx_read" /\ ~expired)
     /\ (expired' => pc' \in {"validate", "idle"})
     /\ (expired => expired' /\ resp' = resp /\ line' = line /\ nread' = nread)

C16_CountdownStartedOncePolledBeforeEachByte == [][C16_Step]_vars

\* the poll reported expiry in the middle of a frame while more bytes of it
\* were waiting on the line; they stay there
C16_Witness ==
  /\ pc = "validate"
  /\ expired
  /\ timerStarts = 1
  /\ Len(resp) > 0
  /\ Len(resp) < resplen
  /\ Len(line) > 1

\* C18: transport failures map to fixed error variants and end the exchange
\* at once. An error value is recorded only by a failed uart.read() in drain
\* or while receiving, which returns ReadError carrying it, or by a failed
\* uart.write() or flush, which returns WriteError carrying it; the step
\* that records it returns from the call without writing, reading or storing
\* anything; ReadError and WriteError are returned in no other way, TimedOut
\* only after a poll reported expiry, and a would-block result never is the
\* result of a call.
C18_Step ==
  calls' = calls =>
     /\ result' \in {"none", "pending", "Ok"} \cup ErrorResults
     /\ (result' = "ReadError" <=> errval' \in ReadErrors)
     /\ (result' = "WriteError" <=> errval' \in WriteErrors)
     /\ (result' = "TimedOut" => expired' /\ errval' = "none")
     /\ (errval' # "none" => pc' = "idle")
     /\ (errval' # errval =>
           /\ errval = "none"
           /\ \/ errval' \in ReadErrors /\ pc \in {"drain", "rx_read", "rx_block"}
              \/ errval' \in WriteErrors /\ pc \in {"write", "flush"}
           /\ tx' = tx /\ resp' = resp /\ line' = line /\ expired' = expired)
     /\ ((result' = "pending" /\ pc = pc') =>
           errval' = "none")

C18_TransportFailuresMapToFixedErrors == [][C18_Step]_vars

\* a hard read error in the middle of the response, under a countdown that
\* has not expired, was returned as ReadError
C18_Witness ==
  /\ Returned
  /\ result = "ReadError"
  /\ errval = "Framing"
  /\ timeoutSome
  /\ ~expired
  /\ flushed
  /\ resp # <<>>

\* C20: after any sequence of operations with any outcomes the stored
\* address of a handle is in 0x01..0xF7 or is 0xF8, and the only step that
\* changes it is the return of a successful set_addr, which stores its
\* argument: read, get_threshold, get_addr, set_threshold and reset_energy
\* leave it as it was whether they succeed or fail.
C20_Step ==
  /\ (constructed' = "yes" => addr' \in (1..247) \cup {248})
  /\ ((constructed = "yes" /\ addr' # addr) =>
        /\ op = "set_addr"
        /\ pc = "validate"
        /\ pc' = "idle"
        /\ result' = "Ok"
        /\ addr' = arg)
  /\ ((constructed = "yes" /\ op' # "set_addr") => addr' = addr)

C20_StoredAddressLegalAndStable == [][C20_Step]_vars

\* the second operation on a handle, a read, has failed and the address
\* is still the one it began with, 0xF7
C20_Witness ==
  /\ calls = 2
  /\ Returned
  /\ op = "read"
  /\ result \in ErrorResults
  /\ addr = 247
  /\ addr0 = 247

\* C15 as stated: every operation invoked with a timeout whose countdown
\* eventually expires, on a transport that eventually accepts every written
\* byte and completes flush, eventually returns, for any behaviour of the
\* transport's read side.
C15_Original == (timeoutSome /\ pc # "idle") ~> (pc = "idle")

\* C17 as stated: a byte the device sent in reply to an earlier request
\* whose exchange was aborted is never stored in the response buffer of a
\* later operation, whenever it arrives; in particular a late reply to a
\* timed-out get_threshold is never returned as the result of a following
\* get_addr.
C17_Original ==
  /\ \A k \in 1..Len(respFrom) : respFrom[k] = 0 \/ respFrom[k] = calls
  /\ ~(/\ Returned /\ op = "get_addr" /\ result = "Ok"
       /\ \A k \in 1..Len(respFrom) : respFrom[k] = calls - 1)

\* communicate's checks with the 4 byte fast path left out
ResultWithoutFastPath(rq, rs, n, len) ==
  IF n % 256 < len % 256 THEN "TimedOut"
  ELSE IF rs[1] # rq[1] \/ rs[2] # rq[2] THEN "PzemError"
  ELSE IF ~crc_check(rs) THEN "CrcMismatch"
  ELSE "Ok"

\* C21: for the 4 byte exchange of reset_energy the comparison of the
\* response's CRC bytes with the request's never changes the outcome: the
\* result is the one of the checks without the fast path for every
\* response, and among the responses that echo the request's first two bytes
\* those whose last two bytes differ from the request's are exactly those
\* the CRC recomputation rejects, and exactly those answered CrcMismatch.
C21_FastPathSameAsRecomputation ==
  op = "communicate_result" =>
     /\ result = ResultWithoutFastPath(req, resp, nread, resplen)
     /\ (HeaderEchoed(req, resp) =>
           /\ ((resp[3] # req[3] \/ resp[4] # req[4]) <=> ~crc_check(resp))
           /\ ((resp[3] # req[3] \/ resp[4] # req[4]) <=> ~CrcValid(resp))
           /\ ((resp[3] # req[3] \/ resp[4] # req[4]) <=> result = "CrcMismatch")
           /\ (resp = req <=> result = "Ok"))

\* a response that echoes the header and the first CRC byte of the request
\* and differs in the last byte only was rejected with CrcMismatch
C21_Witness ==
  /\ op = "communicate_result"
  /\ Len(resp) = 4
  /\ HeaderEchoed(req, resp)
  /\ resp[3] = req[3]
  /\ resp[4] # req[4]
  /\ result = "CrcMismatch"

====
